---------------------------- MODULE Spec2Model ----------------------------
(***************************************************************************)
(* State-machine model of the two Lightning web components of the          *)
(* repository:                                                             *)
(*   - ResultTable (src/lwc/resultTable/resultTable.js), the violation     *)
(*     report viewer;                                                      *)
(*   - UserStoryCommitTableActions                                         *)
(*     (src/lwc/userStoryCommitTableActions/userStoryCommitTableActions.js)*)
(*     the commit-table action handler.                                    *)
(*                                                                         *)
(* JavaScript strings are TLA+ strings; the string methods the code uses   *)
(* (toLowerCase, trim, includes, replace, split, match, <) are operators   *)
(* computed character by character.  JavaScript values whose type varies   *)
(* (undefined / null / string / array / object) are tagged records.        *)
(***************************************************************************)
EXTENDS Integers, Sequences, FiniteSets, TLC

(***************************************************************************)
(* State                                                                   *)
(***************************************************************************)
VARIABLES
    \* ResultTable fields
    formattedJson, relevantFormattedJson, showTable, type, violationCounts,
    filteredJson, selectedSeverity, searchValue, groupBy,
    \* the last ResultTable operation (name, argument, and the
    \* selectedSeverity it started from), the one before it (in brief), and
    \* whether the search state is out of step with the loaded list:
    \* formattedJson was replaced since filteredJson was computed from it,
    \* or a search threw before it could set filteredJson
    last, prev, stale,
    \* UserStoryCommitTableActions fields
    _isWorking, _filtered,
    \* the calls in flight: the getSystemPropertiesFromPipelineOfUserStory
    \* calls by the number of the render that made them, and how many
    \* JobStatus.open and getChangesFromUserStory calls
    pendingProperties, openDialogs, pendingChanges,
    \* how often renderedCallback and triggerRetrieve have run
    renders, triggers,
    \* the last message published on the channel, with the _filtered and the
    \* changeset it was built from, and the properties of the last expansion
    published, publishedFrom, expanded,
    \* how many messages have been published, and the last step of the
    \* component (its name, the render whose call it settles, its input)
    publishCount, lastCommit

(***************************************************************************)
(* JavaScript values                                                       *)
(***************************************************************************)
Undefined == [t |-> "undefined"]

JsNull == [t |-> "null"]

Str(s) == [t |-> "string", v |-> s]

Num(n) == [t |-> "number", v |-> n]

Arr(a) == [t |-> "array", v |-> a]

Obj(o) == [t |-> "object", v |-> o]

(***************************************************************************)
(* String primitives                                                       *)
(***************************************************************************)
\* The printable ASCII characters in code-unit order, from code 32 (space);
\* the backslash and the grave accent, which no modelled string holds, are
\* left out (the order of the others is unchanged).
ASCII == " !\"#$%&'()*+,-./0123456789:;<=>?@ABCDEFGHIJKLMNOPQRSTUVWXYZ[]^_abcdefghijklmnopqrstuvwxyz{|}~"

UPPER == "ABCDEFGHIJKLMNOPQRSTUVWXYZ"

LOWER == "abcdefghijklmnopqrstuvwxyz"

DIGITS == "0123456789"

CharAt(s, i) == SubSeq(s, i, i)

\* Op applied to the value of x, which is evaluated once.
Call(Op(_), x) == CHOOSE r \in {Op(v) : v \in {x}} : TRUE

\* The rank of a one-character string in code-unit order (line feed and
\* carriage return sort below every printable character).
CharCode(c) ==
    IF c = "\n" THEN 10
    ELSE IF c = "\r" THEN 13
    ELSE 31 + (CHOOSE i \in 1..Len(ASCII) : CharAt(ASCII, i) = c)

\* The lower-case letter of each upper-case letter.
LowerOf == [u \in {CharAt(UPPER, i) : i \in 1..Len(UPPER)} |->
              CharAt(LOWER, CHOOSE i \in 1..Len(UPPER) : CharAt(UPPER, i) = u)]

LowerChar(c) == IF c \in DOMAIN LowerOf THEN LowerOf[c] ELSE c

RECURSIVE LowerFrom(_, _)
LowerFrom(s, i) ==
    IF i > Len(s) THEN ""
    ELSE LowerChar(CharAt(s, i)) \o LowerFrom(s, i + 1)

ToLowerCase(s) == Call(LAMBDA v : LowerFrom(v, 1), s)

IsSpace(c) == c \in {" ", "\n", "\r", "\t"}

\* String.prototype.trim: from the first to the last non-space character.
TrimValue(s) ==
    LET keep == {i \in 1..Len(s) : ~IsSpace(CharAt(s, i))}
    IN  IF keep = {} THEN ""
        ELSE SubSeq(s, CHOOSE i \in keep : \A j \in keep : i <= j,
                       CHOOSE i \in keep : \A j \in keep : i >= j)

Trim(s) == Call(TrimValue, s)

\* Whether t occurs in s at (1-based) position i.
OccursAt(s, t, i) ==
    /\ i >= 1
    /\ i + Len(t) - 1 <= Len(s)
    /\ SubSeq(s, i, i + Len(t) - 1) = t

\* The positions at which t occurs in s.
Occurrences(s, t) ==
    UNION {{i \in 1..(Len(sv) + 1) : OccursAt(sv, tv, i)} : sv \in {s}, tv \in {t}}

Includes(s, t) == Occurrences(s, t) # {}

StartsWith(s, t) == OccursAt(s, t, 1)

\* The least position at which t occurs in s (0 when none).
IndexOf(s, t) ==
    LET at == Occurrences(s, t)
    IN  IF at = {} THEN 0 ELSE CHOOSE i \in at : \A j \in at : i <= j

\* String.prototype.replace with a string pattern: the first occurrence only.
ReplaceFirst(s, pat, by) ==
    LET i == IndexOf(s, pat)
    IN  IF i = 0 THEN s
        ELSE SubSeq(s, 1, i - 1) \o by \o SubSeq(s, i + Len(pat), Len(s))

\* Decimal rendering of a natural number (String(n)).
RECURSIVE NatToString(_)
NatToString(n) ==
    IF n < 10 THEN CharAt(DIGITS, n + 1)
    ELSE NatToString(n \div 10) \o CharAt(DIGITS, (n % 10) + 1)

RECURSIVE JoinFrom(_, _, _)
JoinFrom(strs, sep, i) ==
    IF i > Len(strs) THEN ""
    ELSE IF i = Len(strs) THEN strs[i]
    ELSE strs[i] \o sep \o JoinFrom(strs, sep, i + 1)

\* Array.prototype.join.
JoinWith(strs, sep) == Call(LAMBDA v : JoinFrom(v, sep, 1), strs)

\* a < b on strings: comparison by code units, a proper prefix being less.
RECURSIVE LessFrom(_, _, _)
LessFrom(a, b, i) ==
    IF i > Len(b) THEN FALSE
    ELSE IF i > Len(a) THEN TRUE
    ELSE IF CharAt(a, i) = CharAt(b, i) THEN LessFrom(a, b, i + 1)
    ELSE CharCode(CharAt(a, i)) < CharCode(CharAt(b, i))

StrLess(a, b) ==
    \E av \in {a} : \E bv \in {b} : LessFrom(av, bv, 1)

(***************************************************************************)
(* ResultTable: constants                                                  *)
(***************************************************************************)
DEFAULT_GROUPING == "engine"

UNKNOWN_FILE == "Unknown File"

UNKNOWN_TYPE == "Unknown"

\* The literal prefix of MAIN_DEFAULT_PATTERN, /main\/default\/([^\/]+)\/(.+)/u.
MAIN_DEFAULT_PREFIX == "main/default/"

SEVERITY_PREFIX == "sev"

SEVERITY_LABELS(level) ==
    CASE level = 1 -> "Critical"
      [] level = 2 -> "High"
      [] level = 3 -> "Moderate"
      [] level = 4 -> "Low"
      [] level = 5 -> "Info"
      [] OTHER -> ""

(***************************************************************************)
(* ResultTable: transformation of the parsed payload                       *)
(***************************************************************************)
\* String(x) for the values a Violation field can hold.
JsString(x) ==
    CASE x.t = "undefined" -> "undefined"
      [] x.t = "null" -> "null"
      [] x.t = "string" -> x.v
      [] x.t = "number" -> NatToString(x.v)
      [] x.t = "strings" -> JoinWith(x.v, ",")
      [] x.t = "objects" -> JoinWith([i \in 1..Len(x.v) |-> "[object Object]"], ",")
      [] x.t = "object" -> "[object Object]"

\* MAIN_DEFAULT_PATTERN matches at position i: the prefix, a type of one or
\* more non-slash characters ending at the slash at j, and a non-empty rest.
PatternMatchAt(path, i, j) ==
    LET s == i + Len(MAIN_DEFAULT_PREFIX)
    IN  /\ OccursAt(path, MAIN_DEFAULT_PREFIX, i)
        /\ j > s
        /\ j < Len(path)
        /\ CharAt(path, j) = "/"
        /\ \A k \in s..(j - 1) : CharAt(path, k) # "/"
        /\ CharAt(path, j + 1) \notin {"\n", "\r"}

\* The end of the greedy (.+) starting at position from: it stops before the
\* first line terminator.
DotPlusEnd(path, from) ==
    LET stops == {k \in from..Len(path) : CharAt(path, k) \in {"\n", "\r"}}
    IN  IF stops = {} THEN Len(path)
        ELSE (CHOOSE k \in stops : \A m \in stops : k <= m) - 1

\* path.match(MAIN_DEFAULT_PATTERN) on a non-empty path: the leftmost match.
ShortenPath(path) ==
    LET hits == {h \in (1..Len(path)) \X (1..Len(path)) :
                    PatternMatchAt(path, h[1], h[2])}
    IN  IF hits = {} THEN path
        ELSE LET h == CHOOSE x \in hits : \A y \in hits : x[1] <= y[1]
                 s == h[1] + Len(MAIN_DEFAULT_PREFIX)
                 metaType == SubSeq(path, s, h[2] - 1)
                 fileKey == SubSeq(path, h[2] + 1, DotPlusEnd(path, h[2] + 1))
             IN  metaType \o "/" \o fileKey

extractFileAfterDefault(filePath) ==
    Call(LAMBDA fp : IF fp.t = "undefined" \/ fp.v = ""
                     THEN UNKNOWN_FILE
                     ELSE Call(ShortenPath, fp.v),
         filePath)

\* A variant that always takes the first location.
PrimaryLocationFirst(violation) ==
    LET locs == violation.locations
    IN  IF Len(locs) > 0
        THEN [file |-> Str(locs[1].file), startLine |-> Num(locs[1].startLine)]
        ELSE [file |-> Undefined, startLine |-> Undefined]

\* violation.locations?.[violation.primaryLocationIndex]
\*     || violation.locations?.[0] || {}
PrimaryLocation(violation) ==
    LET locs == violation.locations
        k == violation.primaryLocationIndex + 1
    IN  IF k \in DOMAIN locs
        THEN [file |-> Str(locs[k].file), startLine |-> Num(locs[k].startLine)]
        ELSE IF Len(locs) > 0
        THEN [file |-> Str(locs[1].file), startLine |-> Num(locs[1].startLine)]
        ELSE [file |-> Undefined, startLine |-> Undefined]

SeverityLabel(severity) ==
    NatToString(severity) \o " (" \o SEVERITY_LABELS(severity) \o ")"

\* One element of the map in transformJson; idx is the 0-based array index.
TransformWith(violation, idx, primaryLoc) ==
    LET fullFilePath == primaryLoc.file
    IN  [allLocations |-> violation.locations,
         engine |-> violation.engine,
         file |-> extractFileAfterDefault(fullFilePath),
         fullViolation |-> violation,
         id |-> violation.rule \o "-" \o JsString(fullFilePath) \o "-"
                  \o JsString(primaryLoc.startLine) \o "-" \o NatToString(idx),
         line |-> primaryLoc.startLine,
         message |-> violation.message,
         resource |-> IF Len(violation.resources) > 0
                      THEN violation.resources[1] ELSE "",
         rule |-> violation.rule,
         severity |-> violation.severity,
         tags |-> violation.tags,
         severityLabel |-> SeverityLabel(violation.severity)]

TransformViolation(violation, idx) ==
    Call(LAMBDA v : Call(LAMBDA loc : TransformWith(v, idx, loc),
                         PrimaryLocation(v)),
         violation)

RECURSIVE MapViolations(_, _)
MapViolations(violations, i) ==
    IF i > Len(violations) THEN <<>>
    ELSE <<TransformViolation(violations[i], i - 1)>>
            \o MapViolations(violations, i + 1)

transformJson(parsedJson) ==
    IF parsedJson.violations.t = "array"
    THEN Call(LAMBDA vs : MapViolations(vs, 1), parsedJson.violations.v)
    ELSE <<>>

(***************************************************************************)
(* ResultTable: the documents the wire adapter can provision               *)
(***************************************************************************)
\* The raw violation of the documented example payload.
RawExample ==
    [engine |-> "pmd", rule |-> "R1", severity |-> 3,
     locations |-> <<[file |-> "main/default/classes/Foo.cls", startLine |-> 10]>>,
     primaryLocationIndex |-> 0, message |-> "m",
     resources |-> <<"Foo">>, tags |-> <<>>]

\* Two locations, the primary one being the second.
RawUnused ==
    [engine |-> "eslint", rule |-> "no-unused-vars", severity |-> 2,
     locations |-> <<[file |-> "README.md", startLine |-> 1],
                     [file |-> "src/main/default/lwc/card/card.js",
                      startLine |-> 7]>>,
     primaryLocationIndex |-> 1, message |-> "x is unused",
     resources |-> <<>>, tags |-> <<"Recommended", "LWC">>]

\* No location at all.
RawNoLocation ==
    [engine |-> "pmd", rule |-> "R2", severity |-> 2,
     locations |-> <<>>,
     primaryLocationIndex |-> 0, message |-> "Avoid Foo",
     resources |-> <<"Bar">>, tags |-> <<"Security">>]

\* A primary location index beyond the locations.
RawCritical ==
    [engine |-> "pmd", rule |-> "R1", severity |-> 1,
     locations |-> <<[file |-> "main/default/classes/Foo.cls", startLine |-> 20]>>,
     primaryLocationIndex |-> 4, message |-> "m2",
     resources |-> <<"Foo">>, tags |-> <<>>]

Payload(violations, counts) ==
    [t |-> "object", violations |-> violations, violationCounts |-> counts]

Parsed(value) == [ok |-> TRUE, value |-> value]

SyntaxError == [ok |-> FALSE]

\* A document is its text, as b64DecodeUnicode decodes it from the version
\* data, together with what JSON.parse makes of that text.
DocExample ==
    [text |-> "{\"violations\":[{\"engine\":\"pmd\",\"rule\":\"R1\",\"severity\":3,\"locations\":[{\"file\":\"main/default/classes/Foo.cls\",\"startLine\":10}],\"primaryLocationIndex\":0,\"message\":\"m\",\"resources\":[\"Foo\"],\"tags\":[]}]}",
     json |-> Parsed(Payload(Arr(<<RawExample>>), Undefined))]

\* Three violations with the counts the analyzer computed for them.
DocThree ==
    [text |-> "{\"violationCounts\":{\"total\":3,\"sev1\":0,\"sev2\":2,\"sev3\":1},\"violations\":[R1@Foo.cls:10,no-unused-vars@card.js:7,R2]}",
     json |-> Parsed(Payload(Arr(<<RawExample, RawUnused, RawNoLocation>>),
                             Obj([total |-> 3, sev1 |-> 0, sev2 |-> 2, sev3 |-> 1])))]

\* A document whose violation list is shorter than its counts say.
DocTruncated ==
    [text |-> "{\"violationCounts\":{\"total\":5,\"sev1\":1,\"sev2\":1,\"sev3\":3},\"violations\":[R1@Foo.cls:20,no-unused-vars@card.js:7]}",
     json |-> Parsed(Payload(Arr(<<RawCritical, RawUnused>>),
                             Obj([total |-> 5, sev1 |-> 1, sev2 |-> 1, sev3 |-> 3])))]

DocNoViolations ==
    [text |-> "{\"runDir\":\"/tmp/scan\"}",
     json |-> Parsed(Payload(Undefined, Undefined))]

DocEmptyViolations ==
    [text |-> "{\"violationCounts\":{\"total\":0,\"sev1\":0,\"sev2\":0,\"sev3\":0},\"violations\":[]}",
     json |-> Parsed(Payload(Arr(<<>>),
                             Obj([total |-> 0, sev1 |-> 0, sev2 |-> 0, sev3 |-> 0])))]

DocNull == [text |-> "null", json |-> Parsed(JsNull)]

DocNotJson == [text |-> "ERROR: scan failed", json |-> SyntaxError]

DocEmpty == [text |-> "", json |-> SyntaxError]

Documents ==
    {DocExample, DocThree, DocTruncated, DocNoViolations, DocEmptyViolations,
     DocNull, DocNotJson, DocEmpty}

\* What the user can type into the search box.
SearchInputs == {"", "  ", "Foo", " PMD ", "zzz"}

GroupByValues == {"engine", "typefilename"}

(***************************************************************************)
(* ResultTable: classification of a document                               *)
(***************************************************************************)
\* Whether the try block of getFormattedData throws: JSON.parse rejects the
\* text, or the parsed value is null and reading its property throws.
FormatThrows(serializedJson) ==
    \/ ~serializedJson.json.ok
    \/ serializedJson.json.value.t = "null"

\* A variant whose catch block labels the text as YAML.
getFormattedDataYamlOnError(serializedJson) ==
    IF FormatThrows(serializedJson)
    THEN [formattedJson |-> Str(serializedJson.text), type |-> "YAML"]
    ELSE LET formatted == transformJson(serializedJson.json.value)
         IN  IF Len(formatted) > 0
             THEN [formattedJson |-> Arr(formatted), type |-> "Table"]
             ELSE [formattedJson |-> Arr(formatted), type |-> "YAML"]

\* The value getFormattedData returns.
getFormattedData(serializedJson) ==
    IF FormatThrows(serializedJson)
    THEN [formattedJson |-> Str(serializedJson.text), type |-> "String"]
    ELSE LET formatted == transformJson(serializedJson.json.value)
         IN  IF Len(formatted) > 0
             THEN [formattedJson |-> Arr(formatted), type |-> "Table"]
             ELSE [formattedJson |-> Arr(formatted), type |-> "YAML"]

\* The violationCounts getFormattedData leaves behind, given the old one.
getFormattedDataCounts(serializedJson, old) ==
    IF FormatThrows(serializedJson) THEN old
    ELSE IF serializedJson.json.value.violationCounts.t = "object"
    THEN serializedJson.json.value.violationCounts
    ELSE JsNull

\* getFormattedData and its violationCounts, tabulated once per document.
FormattedData == [doc \in Documents |-> getFormattedData(doc)] @@ <<>>

(***************************************************************************)
(* ResultTable: initial state                                              *)
(***************************************************************************)

viewerVars ==
    <<formattedJson, relevantFormattedJson, showTable, type, violationCounts,
      filteredJson, selectedSeverity, searchValue, groupBy,
      last, prev, stale>>

\* What prev keeps of an operation: a severity click whole, of a search
\* whether its term was blank, and of the others only that they happened.
Brief(operation) ==
    CASE operation.op = "handleSeverityClick" -> operation
      [] operation.op = "handleSearch" ->
            [op |-> "handleSearch",
             arg |-> IF Trim(operation.arg) = "" THEN "" ELSE "term",
             selectedSeverity |-> JsNull]
      [] OTHER -> [op |-> "other", arg |-> "", selectedSeverity |-> JsNull]

Record(op, arg) ==
    /\ prev' = Brief(last)
    /\ last' = [op |-> op, arg |-> arg, selectedSeverity |-> selectedSeverity]

ViewerInit ==
    /\ formattedJson = Undefined
    /\ relevantFormattedJson = Undefined
    /\ showTable = FALSE
    /\ type = "undefined"
    /\ violationCounts = JsNull
    /\ filteredJson = JsNull
    /\ selectedSeverity = JsNull
    /\ searchValue = ""
    /\ groupBy = DEFAULT_GROUPING
    /\ last = [op |-> "constructor", arg |-> "", selectedSeverity |-> JsNull]
    /\ prev = [op |-> "other", arg |-> "", selectedSeverity |-> JsNull]
    /\ stale = FALSE

(***************************************************************************)
(* ResultTable: handlers                                                   *)
(***************************************************************************)
Length(x) == Len(x.v)

wiredVersion(doc) ==
    LET result == FormattedData[doc]
    IN  /\ violationCounts' = getFormattedDataCounts(doc, violationCounts)
        /\ IF Length(result.formattedJson) > 0
           THEN /\ formattedJson' = result.formattedJson
                /\ relevantFormattedJson' = result.formattedJson
                /\ showTable' = TRUE
                /\ type' = result.type
           ELSE UNCHANGED <<formattedJson, relevantFormattedJson, showTable, type>>
        /\ stale' = (stale \/ (filteredJson # JsNull /\ formattedJson' # formattedJson))
        /\ Record("wiredVersion", doc.text)
        /\ UNCHANGED <<filteredJson, selectedSeverity, searchValue, groupBy>>

handleGroupByChange(value) ==
    /\ groupBy' = value
    /\ Record("handleGroupByChange", value)
    /\ UNCHANGED <<formattedJson, relevantFormattedJson, showTable, type,
                   violationCounts, filteredJson, selectedSeverity, searchValue,
                   stale>>

\* The strings _applySearch tests for one row, one per key of the row.
FieldStrings(row) ==
    <<JsString([t |-> "objects", v |-> row.allLocations]),
      row.engine, row.file, "[object Object]", row.id, JsString(row.line),
      row.message, row.resource, row.rule, NatToString(row.severity),
      JsString([t |-> "strings", v |-> row.tags]), row.severityLabel>>

\* A variant that compares the field as it is written.
RowMatchesCaseSensitive(row, searchTerm) ==
    \E values \in {FieldStrings(row)} :
        \E k \in 1..Len(values) :
            values[k] # "" /\ Includes(values[k], searchTerm)

RowMatches(row, searchTerm) ==
    \E values \in {FieldStrings(row)} :
        \E k \in 1..Len(values) :
            values[k] # "" /\ Includes(ToLowerCase(values[k]), searchTerm)

_applySearch(rows, searchTerm) ==
    SelectSeq(rows, LAMBDA row : RowMatches(row, searchTerm))

\* A variant that does not trim the value.
SearchTermUntrimmed(value) == IF value # "" THEN ToLowerCase(value) ELSE ""

SearchTerm(value) == IF value # "" THEN ToLowerCase(Trim(value)) ELSE ""

\* The filteredJson _clearSearch leaves.
_clearSearch == JsNull

\* The lists formattedJson can hold, and _applySearch tabulated once for
\* each of them and each search input.
TableLists ==
    {FormattedData[doc].formattedJson.v :
        doc \in {d \in Documents : FormattedData[d].type = "Table"}}

SearchResults ==
    [rows \in TableLists |->
        [value \in SearchInputs |-> _applySearch(rows, SearchTerm(value))] @@ <<>>]
    @@ <<>>

SearchTerms == [value \in SearchInputs |-> SearchTerm(value)] @@ <<>>

handleSearch(value) ==
    LET searchTerm == SearchTerms[value]
    IN  /\ searchValue' = value
        /\ IF searchTerm = ""
           THEN /\ filteredJson' = _clearSearch
                /\ stale' = FALSE
           ELSE IF formattedJson.t = "array"
           THEN /\ filteredJson' = Arr(SearchResults[formattedJson.v][value])
                /\ stale' = FALSE
           ELSE \* formattedJson.filter is not callable: the handler throws
                \* with searchValue set and the filter not applied
                /\ UNCHANGED filteredJson
                /\ stale' = TRUE
        /\ Record("handleSearch", value)
        /\ UNCHANGED <<formattedJson, relevantFormattedJson, showTable, type,
                       violationCounts, selectedSeverity, groupBy>>

\* A variant that never deselects.
SeveritySelectOnly(selected, severity) == Str(severity)

SeverityToggle(selected, severity) ==
    IF selected = Str(severity) THEN JsNull ELSE Str(severity)

handleSeverityClick(severity) ==
    /\ selectedSeverity' = SeverityToggle(selectedSeverity, severity)
    /\ Record("handleSeverityClick", severity)
    /\ UNCHANGED <<formattedJson, relevantFormattedJson, showTable, type,
                   violationCounts, filteredJson, searchValue, groupBy, stale>>

handleClearFilters ==
    /\ selectedSeverity' = JsNull
    /\ filteredJson' = JsNull
    /\ searchValue' = ""
    /\ stale' = FALSE
    /\ Record("handleClearFilters", "")
    /\ UNCHANGED <<formattedJson, relevantFormattedJson, showTable, type,
                   violationCounts, groupBy>>

(***************************************************************************)
(* ResultTable: derived views (getters)                                    *)
(***************************************************************************)
\* JavaScript truthiness of a tagged value.
Truthy(x) ==
    CASE x.t = "undefined" -> FALSE
      [] x.t = "null" -> FALSE
      [] x.t = "string" -> x.v # ""
      [] x.t = "number" -> x.v # 0
      [] OTHER -> TRUE

\* this.filteredJson || this.formattedJson
Data == IF Truthy(filteredJson) THEN filteredJson ELSE formattedJson

\* A variant that compares the numeric severity with the selected string
\* strictly, so that they never are equal.
SeverityExcludesStrict(violation, filterSeverity) == Truthy(filterSeverity)

\* filterSeverity && String(violation.severity) !== String(filterSeverity)
SeverityExcludes(violation, filterSeverity) ==
    /\ Truthy(filterSeverity)
    /\ NatToString(violation.severity) # JsString(filterSeverity)

createEngineObject(engine) ==
    [engine |-> engine, rules |-> <<>>, violationCount |-> 0]

createRuleObject(violation) ==
    [engine |-> violation.engine, resource |-> violation.resource,
     rule |-> violation.rule, severity |-> violation.severity,
     tags |-> violation.tags, violations |-> <<>>]

\* A variant that counts a violation only for an engine already present.
AddToEnginesUncounted(engines, violation) ==
    LET known == \E i \in 1..Len(engines) : engines[i].engine = violation.engine
        withEngine ==
            IF known THEN engines
            ELSE Append(engines, createEngineObject(violation.engine))
        WithRule(rules) ==
            IF \E j \in 1..Len(rules) : rules[j].rule = violation.rule
            THEN rules
            ELSE Append(rules, createRuleObject(violation))
        Pushed(rules) ==
            [j \in 1..Len(rules) |->
                IF rules[j].rule = violation.rule
                THEN [rules[j] EXCEPT !.violations = Append(@, violation)]
                ELSE rules[j]]
    IN  [i \in 1..Len(withEngine) |->
            IF withEngine[i].engine = violation.engine
            THEN [withEngine[i] EXCEPT
                    !.rules = Pushed(WithRule(@)),
                    !.violationCount = IF known THEN @ + 1 ELSE @]
            ELSE withEngine[i]]

\* The body of the forEach of processViolationsByEngine for one violation
\* that passes the severity filter; engines lists the engine objects in the
\* order their keys were inserted.
AddToEngines(engines, violation) ==
    LET withEngine ==
            IF \E i \in 1..Len(engines) : engines[i].engine = violation.engine
            THEN engines
            ELSE Append(engines, createEngineObject(violation.engine))
        WithRule(rules) ==
            IF \E j \in 1..Len(rules) : rules[j].rule = violation.rule
            THEN rules
            ELSE Append(rules, createRuleObject(violation))
        Pushed(rules) ==
            [j \in 1..Len(rules) |->
                IF rules[j].rule = violation.rule
                THEN [rules[j] EXCEPT !.violations = Append(@, violation)]
                ELSE rules[j]]
    IN  [i \in 1..Len(withEngine) |->
            IF withEngine[i].engine = violation.engine
            THEN [withEngine[i] EXCEPT
                    !.rules = Pushed(WithRule(@)),
                    !.violationCount = @ + 1]
            ELSE withEngine[i]]

RECURSIVE ProcessFrom(_, _, _, _)
ProcessFrom(violations, filterSeverity, i, engines) ==
    IF i > Len(violations) THEN engines
    ELSE IF SeverityExcludes(violations[i], filterSeverity)
    THEN ProcessFrom(violations, filterSeverity, i + 1, engines)
    ELSE Call(LAMBDA e : ProcessFrom(violations, filterSeverity, i + 1, e),
              AddToEngines(engines, violations[i]))

processViolationsByEngine(violations, filterSeverity) ==
    ProcessFrom(violations, filterSeverity, 1, <<>>)

engineDescriptions(engine) ==
    CASE engine = "cpd" -> "Copy-Paste Detector: Finds duplicate code blocks in Apex and other supported languages."
      [] engine = "eslint" -> "Analyzes JavaScript and Lightning Web Components for code quality and style issues."
      [] engine = "flow" -> "Analyzes Salesforce Flows for best practices, security, and maintainability issues."
      [] engine = "pmd" -> "Performs static analysis on Apex, Visualforce. Includes the PMD AppExchange rules."
      [] engine = "regex" -> "Detects code patterns using regular expressions. Useful for enforcing simple, custom rules."
      [] engine = "retirejs" -> "Scans JavaScript libraries for known security vulnerabilities."
      [] engine = "sfge" -> "Salesforce Graph Engine: Advanced static analysis for security, CRUD/FLS, and data flow in Apex."
      [] OTHER -> ""

CountLabel(name, count) == name \o " (" \o NatToString(count) \o ")"

\* transformEngineObjectsToArray(engines, true)
transformEngineObjectsToArray(engines) ==
    [i \in 1..Len(engines) |->
        [description |-> engineDescriptions(engines[i].engine),
         engine |-> engines[i].engine,
         key |-> engines[i].engine,
         label |-> CountLabel(engines[i].engine, engines[i].violationCount),
         rules |-> [j \in 1..Len(engines[i].rules) |->
                      LET ruleObj == engines[i].rules[j]
                      IN  [key |-> ruleObj.rule,
                           label |-> CountLabel(ruleObj.rule, Len(ruleObj.violations)),
                           resource |-> ruleObj.resource,
                           severity |-> ruleObj.severity,
                           tagsString |-> JoinWith(ruleObj.tags, ", "),
                           violations |-> ruleObj.violations,
                           severityLabel |-> SeverityLabel(ruleObj.severity)]],
         violationCount |-> engines[i].violationCount]]

groupByEngineAndRuleArray(violations) ==
    transformEngineObjectsToArray(
        processViolationsByEngine(violations, selectedSeverity))

\* A variant that takes the file name after the last slash as the file key.
TypeAndFileLastSlash(violation) ==
    LET slashes == {p \in 1..Len(violation.file) : CharAt(violation.file, p) = "/"}
        slash == IF slashes = {} THEN 0
                 ELSE CHOOSE p \in slashes : \A q \in slashes : q <= p
    IN  IF slash = 0
        THEN [metaType |-> UNKNOWN_TYPE, fileKey |-> violation.file]
        ELSE [metaType |-> SubSeq(violation.file, 1, slash - 1),
              fileKey |-> SubSeq(violation.file, slash + 1, Len(violation.file))]

\* The metadata type and file key groupedByMetadataTypeArray derives from
\* a violation's display path.
TypeAndFile(violation) ==
    LET slash == IndexOf(violation.file, "/")
    IN  IF violation.file = ""
        THEN [metaType |-> UNKNOWN_TYPE, fileKey |-> UNKNOWN_FILE]
        ELSE IF slash = 0
        THEN [metaType |-> UNKNOWN_TYPE, fileKey |-> violation.file]
        ELSE [metaType |-> SubSeq(violation.file, 1, slash - 1),
              fileKey |-> SubSeq(violation.file, slash + 1, Len(violation.file))]

\* The body of the forEach of groupedByMetadataTypeArray for one violation
\* that passes the severity filter.
AddToTypes(metaTypeMap, violation) ==
    LET tf == TypeAndFile(violation)
        withType ==
            IF \E i \in 1..Len(metaTypeMap) : metaTypeMap[i].key = tf.metaType
            THEN metaTypeMap
            ELSE Append(metaTypeMap, [key |-> tf.metaType, files |-> <<>>])
        WithFile(files) ==
            IF \E j \in 1..Len(files) : files[j].key = tf.fileKey
            THEN files
            ELSE Append(files, [key |-> tf.fileKey, violations |-> <<>>])
        Pushed(files) ==
            [j \in 1..Len(files) |->
                IF files[j].key = tf.fileKey
                THEN [files[j] EXCEPT !.violations = Append(@, violation)]
                ELSE files[j]]
    IN  [i \in 1..Len(withType) |->
            IF withType[i].key = tf.metaType
            THEN [withType[i] EXCEPT !.files = Pushed(WithFile(@))]
            ELSE withType[i]]

RECURSIVE TypesFrom(_, _, _, _)
TypesFrom(violations, filterSeverity, i, metaTypeMap) ==
    IF i > Len(violations) THEN metaTypeMap
    ELSE IF SeverityExcludes(violations[i], filterSeverity)
    THEN TypesFrom(violations, filterSeverity, i + 1, metaTypeMap)
    ELSE Call(LAMBDA m : TypesFrom(violations, filterSeverity, i + 1, m),
              AddToTypes(metaTypeMap, violations[i]))

RECURSIVE SumLengths(_, _)
SumLengths(files, j) ==
    IF j > Len(files) THEN 0
    ELSE Len(files[j].violations) + SumLengths(files, j + 1)

groupedByMetadataTypeArray ==
    IF ~Truthy(Data) THEN <<>>
    ELSE LET metaTypeMap == TypesFrom(Data.v, selectedSeverity, 1, <<>>)
         IN  [i \in 1..Len(metaTypeMap) |->
                LET filesArr ==
                        [j \in 1..Len(metaTypeMap[i].files) |->
                            [key |-> metaTypeMap[i].files[j].key,
                             label |-> CountLabel(metaTypeMap[i].files[j].key,
                                          Len(metaTypeMap[i].files[j].violations)),
                             violations |-> metaTypeMap[i].files[j].violations]]
                IN  [files |-> filesArr,
                     key |-> metaTypeMap[i].key,
                     label |-> CountLabel(metaTypeMap[i].key,
                                          SumLengths(filesArr, 1))]]

\* Evaluated only while Data is an array: on any other value the getter
\* throws.
groupedViolationsArray ==
    IF groupBy = "engine" THEN groupByEngineAndRuleArray(Data.v)
    ELSE IF groupBy = "typefilename" THEN groupedByMetadataTypeArray
    ELSE <<>>

\* Number(level) for the decimal digits of a severity key.
RECURSIVE DigitsValue(_, _)
DigitsValue(s, acc) ==
    IF s = "" THEN acc
    ELSE DigitsValue(Tail(s),
                     10 * acc + (CHOOSE d \in 0..9 : CharAt(DIGITS, d + 1) = Head(s)))

CountSeverity(rows, level) ==
    Len(SelectSeq(rows, LAMBDA violation : NatToString(violation.severity) = level))

\* A variant that takes an empty search result for no search.
SeverityEntryNonEmpty(key) ==
    LET level == ReplaceFirst(key, SEVERITY_PREFIX, "")
        count == IF Truthy(Data) /\ Truthy(filteredJson) /\ Len(filteredJson.v) > 0
                 THEN CountSeverity(Data.v, level)
                 ELSE violationCounts.v[key]
    IN  [count |-> count,
         label |-> CountLabel(SEVERITY_LABELS(DigitsValue(level, 0)), count),
         level |-> level,
         key |-> key,
         selected |-> (selectedSeverity = Str(level))]

\* The entry severityLevels builds for one key of violationCounts.
SeverityEntry(key) ==
    LET level == ReplaceFirst(key, SEVERITY_PREFIX, "")
        count == IF Truthy(Data) /\ Truthy(filteredJson)
                 THEN CountSeverity(Data.v, level)
                 ELSE violationCounts.v[key]
    IN  [count |-> count,
         label |-> CountLabel(SEVERITY_LABELS(DigitsValue(level, 0)), count),
         level |-> level,
         key |-> key,
         selected |-> (selectedSeverity = Str(level))]

RECURSIVE SortByLevel(_)
SortByLevel(entries) ==
    IF entries = {} THEN <<>>
    ELSE LET first == CHOOSE e \in entries :
                        \A f \in entries :
                            DigitsValue(e.level, 0) <= DigitsValue(f.level, 0)
         IN  <<first>> \o SortByLevel(entries \ {first})

severityLevels ==
    IF ~Truthy(violationCounts) THEN <<>>
    ELSE SortByLevel({SeverityEntry(key) :
                        key \in {k \in DOMAIN violationCounts.v :
                                    StartsWith(k, SEVERITY_PREFIX)}})

dynamicTotalViolations ==
    IF ~Truthy(Data) THEN 0
    ELSE IF Truthy(selectedSeverity)
    THEN CountSeverity(Data.v, JsString(selectedSeverity))
    ELSE IF Truthy(filteredJson)
    THEN Len(filteredJson.v)
    ELSE IF Truthy(violationCounts)
            /\ "total" \in DOMAIN violationCounts.v
            /\ violationCounts.v["total"] # 0
    THEN violationCounts.v["total"]
    ELSE Len(Data.v)

hasActiveFilters == selectedSeverity # JsNull \/ filteredJson # JsNull

isString == type = "String" /\ Truthy(formattedJson)

\* columns is non-empty as soon as one row of formattedJson has a key.
isTabular == type = "Table" /\ Len(formattedJson.v) > 0

isYAML == type = "YAML" /\ Truthy(formattedJson)

(***************************************************************************)
(* UserStoryCommitTableActions: inputs                                     *)
(***************************************************************************)
\* How often the component renders, and how often the user asks for a
\* retrieve.
MaxRenders == 2

MaxTriggers == 1

SITE_PLACEHOLDER == "<site-id>"

METADATA_DIRECTORY == "metadata/"

\* The properties the Apex call can answer with.
Properties(items, sites, directory) ==
    [SFCC_METADATA_ITEMS |-> items, SFCC_SITES |-> sites,
     SFCC_METADATA_DIRECTORY |-> directory]

PropsSites ==
    Properties(Str("metadata/sites/<site-id>/settings"), Str("A\nB"), Undefined)

PropsSitesDirectory ==
    Properties(Str("metadata/sites/<site-id>/settings"), Str("A\nB"),
               Str("cartridges/"))

PropsMixed ==
    Properties(Str("metadata/sites/<site-id>/settings\r\nmetadata/catalogs"),
               Str("A\n\nB\r\nC"), Undefined)

PropsPlainDirectory ==
    Properties(Str("metadata/catalogs"), Undefined, Str("cartridges/"))

PropsNoItems == Properties(Undefined, Str("A"), Undefined)

PropertySets ==
    {PropsSites, PropsSitesDirectory, PropsMixed, PropsPlainDirectory,
     PropsNoItems}

Change(n, t, m, c) == [n |-> n, t |-> t, m |-> m, c |-> c]

\* The changesets the Apex call can answer with: the text and what
\* JSON.parse makes of it.
ChangesTwo ==
    [text |-> "[{\"n\":\"profiles/Admin\",\"t\":\"Profile\",\"m\":\"force-app\",\"c\":\"sfdx\"},{\"n\":\"classes/Foo.cls\",\"t\":\"ApexClass\",\"m\":\"force-app\",\"c\":\"apex\"}]",
     json |-> Parsed(Arr(<<Change("profiles/Admin", "Profile", "force-app", "sfdx"),
                           Change("classes/Foo.cls", "ApexClass", "force-app", "apex")>>))]

\* A change named like an expanded metadata entry.
ChangesClash ==
    [text |-> "[{\"n\":\"metadata/catalogs\",\"t\":\"xml\",\"m\":\"\",\"c\":\"sfcc\"}]",
     json |-> Parsed(Arr(<<Change("metadata/catalogs", "xml", "", "sfcc")>>))]

ChangesNone == [text |-> "[]", json |-> Parsed(Arr(<<>>))]

ChangesObject == [text |-> "{\"n\":\"x\"}", json |-> Parsed(Obj([n |-> "x"]))]

ChangesNotJson == [text |-> "<html>", json |-> SyntaxError]

Changesets ==
    {ChangesTwo, ChangesClash, ChangesNone, ChangesObject, ChangesNotJson}

NoMessage == [type |-> "none"]

(***************************************************************************)
(* UserStoryCommitTableActions: expansion of the metadata list             *)
(***************************************************************************)
\* String.prototype.split(/\r?\n/g), from position i of s with the current
\* piece starting at position start.
RECURSIVE SplitFrom(_, _, _)
SplitFrom(s, start, i) ==
    IF i > Len(s) THEN <<SubSeq(s, start, Len(s))>>
    ELSE IF CharAt(s, i) = "\n"
    THEN <<SubSeq(s, start, i - 1)>> \o SplitFrom(s, i + 1, i + 1)
    ELSE IF CharAt(s, i) = "\r" /\ i < Len(s) /\ CharAt(s, i + 1) = "\n"
    THEN <<SubSeq(s, start, i - 1)>> \o SplitFrom(s, i + 2, i + 2)
    ELSE SplitFrom(s, start, i + 1)

SplitLines(s) == Call(LAMBDA v : SplitFrom(v, 1, 1), s)

\* (properties[this._SFCC_SITES] || "").split(/\r?\n/g).filter((x) => x !== "")
Sites(properties) ==
    SelectSeq(SplitLines(IF Truthy(properties.SFCC_SITES)
                         THEN properties.SFCC_SITES.v ELSE ""),
              LAMBDA x : x # "")

\* What the reducer pushes for one element of metadata.
ExpandMeta(meta, sites, directory) ==
    IF Includes(meta, SITE_PLACEHOLDER)
    THEN [k \in 1..Len(sites) |->
            IF Truthy(directory)
            THEN ReplaceFirst(meta, METADATA_DIRECTORY, directory.v)
            ELSE ReplaceFirst(meta, SITE_PLACEHOLDER, sites[k])]
    ELSE <<IF Truthy(directory)
           THEN ReplaceFirst(meta, METADATA_DIRECTORY, directory.v)
           ELSE meta>>

RECURSIVE ExpandFrom(_, _, _, _)
ExpandFrom(metadata, sites, directory, i) ==
    IF i > Len(metadata) THEN <<>>
    ELSE ExpandMeta(metadata[i], sites, directory)
            \o ExpandFrom(metadata, sites, directory, i + 1)

\* properties[this._SFCC_METADATA].split throws unless the property is a
\* string.
ExpansionThrows(properties) == properties.SFCC_METADATA_ITEMS.t # "string"

\* The _filtered the then-callback of renderedCallback computes.
Expand(properties) ==
    ExpandFrom(SplitLines(properties.SFCC_METADATA_ITEMS.v), Sites(properties),
               properties.SFCC_METADATA_DIRECTORY, 1)

\* Expand, tabulated once per answer of the Apex call.
Expanded ==
    [properties \in {q \in PropertySets : ~ExpansionThrows(q)} |->
        Expand(properties)] @@ <<>>

(***************************************************************************)
(* UserStoryCommitTableActions: the published payload                      *)
(***************************************************************************)
\* JSON.parse(envMetadata).map throws: the text is no JSON, or no array.
RetrieveThrows(envMetadata) ==
    \/ ~envMetadata.json.ok
    \/ envMetadata.json.value.t # "array"

envObj(changes) ==
    [i \in 1..Len(changes) |->
        [Operation |-> "Add", MemberName |-> changes[i].n,
         MemberType |-> changes[i].t, Directory |-> changes[i].m,
         LastModifiedDate |-> "", LastModifiedByName |-> "",
         Category |-> changes[i].c]]

allMetadataFound(files) ==
    [i \in 1..Len(files) |->
        [Operation |-> "Add", MemberName |-> files[i],
         MemberType |-> "xml", Directory |-> "",
         LastModifiedDate |-> "", LastModifiedByName |-> "",
         Category |-> "ccmetadata"]]

\* One step of the stable sort: entry goes before the first element whose
\* MemberName is greater.
InsertByMemberName(sorted, entry) ==
    LET greater == {i \in 1..Len(sorted) :
                        StrLess(entry.MemberName, sorted[i].MemberName)}
        at == IF greater = {} THEN Len(sorted) + 1
              ELSE CHOOSE i \in greater : \A j \in greater : i <= j
    IN  SubSeq(sorted, 1, at - 1) \o <<entry>> \o SubSeq(sorted, at, Len(sorted))

RECURSIVE SortFrom(_, _, _)
SortFrom(entries, i, sorted) ==
    IF i > Len(entries) THEN sorted
    ELSE Call(LAMBDA next : SortFrom(entries, i + 1, next),
              InsertByMemberName(sorted, entries[i]))

\* A variant that leaves the entries in the order of the concatenation.
Unsorted(entries) == entries

\* Array.prototype.sort with the comparator on MemberName (a stable sort).
SortByMemberName(entries) == SortFrom(entries, 1, <<>>)

\* The payload retrieveChanges publishes.
RetrievedChanges(files, envMetadata) ==
    [type |-> "retrievedChanges",
     value |-> SortByMemberName(allMetadataFound(files)
                                    \o envObj(envMetadata.json.value.v))]

\* The payload, tabulated once per _filtered and changeset.
Payloads ==
    [files \in {Expanded[q] : q \in DOMAIN Expanded} \cup {<<>>} |->
        [envMetadata \in {c \in Changesets : ~RetrieveThrows(c)} |->
            RetrievedChanges(files, envMetadata)] @@ <<>>] @@ <<>>

(***************************************************************************)
(* UserStoryCommitTableActions: initial state and handlers                 *)
(***************************************************************************)
commitVars ==
    <<_isWorking, _filtered, pendingProperties, openDialogs, pendingChanges,
      renders, triggers, published, publishedFrom, expanded,
      publishCount, lastCommit>>

Step(op, request, arg) ==
    lastCommit' = [op |-> op, request |-> request, arg |-> arg]

CommitInit ==
    /\ _isWorking = FALSE
    /\ _filtered = <<>>
    /\ pendingProperties = {}
    /\ openDialogs = 0
    /\ pendingChanges = 0
    /\ renders = 0
    /\ triggers = 0
    /\ published = NoMessage
    /\ publishedFrom = NoMessage
    /\ expanded = NoMessage
    /\ publishCount = 0
    /\ lastCommit = [op |-> "constructor", request |-> 0, arg |-> NoMessage]

showSpinner == _isWorking

\* renderedCallback up to the Apex call: the promise is left pending.
renderedCallback ==
    /\ renders < MaxRenders
    /\ renders' = renders + 1
    /\ pendingProperties' = pendingProperties \cup {renders + 1}
    /\ Step("renderedCallback", renders + 1, NoMessage)
    /\ UNCHANGED <<_isWorking, _filtered, openDialogs, pendingChanges, triggers,
                   published, publishedFrom, expanded, publishCount>>

\* A variant that drops the answer to a call a later render has superseded.
propertiesResolvedLatestOnly(request, properties) ==
    /\ request \in pendingProperties
    /\ pendingProperties' = pendingProperties \ {request}
    /\ Step("propertiesResolved", request, properties)
    /\ IF ExpansionThrows(properties) \/ request # renders
       THEN UNCHANGED <<_isWorking, _filtered, pendingChanges, expanded>>
       ELSE /\ _filtered' = Expanded[properties]
            /\ expanded' = properties
            /\ _isWorking' = TRUE
            /\ pendingChanges' = pendingChanges + 1
    /\ UNCHANGED <<openDialogs, renders, triggers, published, publishedFrom,
                   publishCount>>

\* The then-callback of renderedCallback for the call of one render: the
\* expansion, and the call of retrieveChanges up to its await.  When the
\* expansion throws, the catch callback logs and nothing else happens.
propertiesResolved(request, properties) ==
    /\ request \in pendingProperties
    /\ pendingProperties' = pendingProperties \ {request}
    /\ Step("propertiesResolved", request, properties)
    /\ IF ExpansionThrows(properties)
       THEN UNCHANGED <<_isWorking, _filtered, pendingChanges, expanded>>
       ELSE /\ _filtered' = Expanded[properties]
            /\ expanded' = properties
            /\ _isWorking' = TRUE
            /\ pendingChanges' = pendingChanges + 1
    /\ UNCHANGED <<openDialogs, renders, triggers, published, publishedFrom,
                   publishCount>>

\* The catch-callback of renderedCallback on a rejected Apex call.
propertiesRejected(request) ==
    /\ request \in pendingProperties
    /\ pendingProperties' = pendingProperties \ {request}
    /\ Step("propertiesRejected", request, NoMessage)
    /\ UNCHANGED <<_isWorking, _filtered, openDialogs, pendingChanges, renders,
                   triggers, published, publishedFrom, expanded, publishCount>>

\* triggerRetrieve up to its await of JobStatus.open.
triggerRetrieve ==
    /\ triggers < MaxTriggers
    /\ triggers' = triggers + 1
    /\ openDialogs' = openDialogs + 1
    /\ Step("triggerRetrieve", 0, NoMessage)
    /\ UNCHANGED <<_isWorking, _filtered, pendingProperties, pendingChanges,
                   renders, published, publishedFrom, expanded, publishCount>>

\* triggerRetrieve after the dialog closed: retrieveChanges up to its await.
dialogClosed ==
    /\ openDialogs > 0
    /\ openDialogs' = openDialogs - 1
    /\ _isWorking' = TRUE
    /\ pendingChanges' = pendingChanges + 1
    /\ Step("dialogClosed", 0, NoMessage)
    /\ UNCHANGED <<_filtered, pendingProperties, renders, triggers, published,
                   publishedFrom, expanded, publishCount>>

\* retrieveChanges after its await, with the changeset the Apex call gave.
changesResolved(envMetadata) ==
    /\ pendingChanges > 0
    /\ pendingChanges' = pendingChanges - 1
    /\ Step("changesResolved", 0, envMetadata)
    /\ IF RetrieveThrows(envMetadata)
       THEN UNCHANGED <<published, publishedFrom, publishCount>>
       ELSE /\ published' = Payloads[_filtered][envMetadata]
            /\ publishedFrom' = [type |-> "source", files |-> _filtered,
                                 changes |-> envMetadata]
            /\ publishCount' = publishCount + 1
    /\ _isWorking' = FALSE
    /\ UNCHANGED <<_filtered, pendingProperties, openDialogs, renders, triggers,
                   expanded>>

\* A variant that fetches the changeset again when the call failed.
changesRejectedRetry ==
    /\ pendingChanges > 0
    /\ Step("changesRejected", 0, NoMessage)
    /\ UNCHANGED <<_isWorking, pendingChanges, _filtered, pendingProperties,
                   openDialogs, renders, triggers, published, publishedFrom,
                   expanded, publishCount>>

\* retrieveChanges after its await, the Apex call having failed.
changesRejected ==
    /\ pendingChanges > 0
    /\ pendingChanges' = pendingChanges - 1
    /\ _isWorking' = FALSE
    /\ Step("changesRejected", 0, NoMessage)
    /\ UNCHANGED <<_filtered, pendingProperties, openDialogs, renders, triggers,
                   published, publishedFrom, expanded, publishCount>>

(***************************************************************************)
(* Specifications                                                          *)
(***************************************************************************)
vars == <<viewerVars, commitVars>>

Init == ViewerInit /\ CommitInit

ViewerNext ==
    \/ \E doc \in Documents : wiredVersion(doc) /\ UNCHANGED commitVars
    \/ \E value \in GroupByValues :
            handleGroupByChange(value) /\ UNCHANGED commitVars
    \/ \E value \in SearchInputs : handleSearch(value) /\ UNCHANGED commitVars
    \/ \E i \in 1..Len(severityLevels) :
            handleSeverityClick(severityLevels[i].level) /\ UNCHANGED commitVars
    \/ handleClearFilters /\ UNCHANGED commitVars

CommitNext ==
    \/ renderedCallback /\ UNCHANGED viewerVars
    \/ \E request \in pendingProperties : \E properties \in PropertySets :
            propertiesResolved(request, properties) /\ UNCHANGED viewerVars
    \/ \E request \in pendingProperties :
            propertiesRejected(request) /\ UNCHANGED viewerVars
    \/ triggerRetrieve /\ UNCHANGED viewerVars
    \/ dialogClosed /\ UNCHANGED viewerVars
    \/ \E envMetadata \in Changesets :
            changesResolved(envMetadata) /\ UNCHANGED viewerVars
    \/ changesRejected /\ UNCHANGED viewerVars

\* The viewer alone, and the commit-table actions alone: the two components
\* share no state.
SpecViewer == Init /\ [][ViewerNext]_vars

SpecCommit == Init /\ [][CommitNext]_vars

(***************************************************************************)
(* Properties of the viewer                                                *)
(***************************************************************************)
RECURSIVE SumFrom(_, _)
SumFrom(numbers, i) ==
    IF i > Len(numbers) THEN 0 ELSE numbers[i] + SumFrom(numbers, i + 1)

Sum(numbers) == SumFrom(numbers, 1)

\* The document with a given text.
DocOf(text) == CHOOSE d \in Documents : d.text = text

\* A violation list is loaded and displayed as a table.
TableLoaded == type = "Table" /\ formattedJson.t = "array"

\* The violations of the working list that have the selected severity.
PassingSeverity ==
    SelectSeq(Data.v, LAMBDA v : selectedSeverity = JsNull
                                 \/ NatToString(v.severity) = selectedSeverity.v)

EngineGroups == groupByEngineAndRuleArray(Data.v)

EngineRuleSum(g) ==
    Sum([j \in 1..Len(g.rules) |-> Len(g.rules[j].violations)])

EngineTotal ==
    Sum([i \in 1..Len(EngineGroups) |-> EngineGroups[i].violationCount])

\* The payload's precomputed total, when dynamicTotalViolations can use it.
PrecomputedTotal ==
    IF /\ violationCounts # JsNull
       /\ "total" \in DOMAIN violationCounts.v
    THEN violationCounts.v["total"]
    ELSE 0

\* C1 as stated: in the engine/rule grouping each engine's violationCount is
\* the sum of the sizes of its rule sub-groups, and the violationCounts of
\* all engines add up to dynamicTotalViolations.
C1_Original ==
    TableLoaded =>
        /\ \A i \in 1..Len(EngineGroups) :
                EngineGroups[i].violationCount = EngineRuleSum(EngineGroups[i])
        /\ EngineTotal = dynamicTotalViolations

\* C1 as amended: each engine's violationCount is the sum of the sizes of
\* its rule sub-groups and the engines add up to the number of violations
\* that pass the filters; dynamicTotalViolations is that number whenever a
\* search or a severity filter is active or the payload gives no non-zero
\* total, and is the payload's violationCounts.total otherwise.
C1_Amended ==
    TableLoaded =>
        /\ \A i \in 1..Len(EngineGroups) :
                EngineGroups[i].violationCount = EngineRuleSum(EngineGroups[i])
        /\ EngineTotal = Len(PassingSeverity)
        /\ (hasActiveFilters \/ PrecomputedTotal = 0)
                => EngineTotal = dynamicTotalViolations
        /\ (~hasActiveFilters /\ PrecomputedTotal # 0)
                => dynamicTotalViolations = PrecomputedTotal

\* C1 witness: on a loaded list, a search has kept two violations of one
\* engine and a severity filter keeps one of them.
C1_Witness ==
    /\ TableLoaded
    /\ selectedSeverity # JsNull
    /\ filteredJson # JsNull
    /\ Len(filteredJson.v) = 2
    /\ Len(EngineGroups) = 1
    /\ EngineTotal = 1

\* C2: clicking the same severity twice, starting with no severity selected,
\* leaves no severity selected, and a severity click changes neither the
\* search term nor the search-filtered list (nor the loaded list, the counts
\* or the grouping mode the views are computed from).
C2_ToggleTwice ==
    /\ [](( /\ prev.op = "handleSeverityClick"
            /\ last.op = "handleSeverityClick"
            /\ prev.arg = last.arg
            /\ prev.selectedSeverity = JsNull )
          => selectedSeverity = JsNull)
    /\ [][last'.op = "handleSeverityClick"
            => UNCHANGED <<searchValue, filteredJson, formattedJson,
                           violationCounts, groupBy, type>>]_vars

\* C2 witness: two clicks on the same severity have just happened on a
\* loaded table, the first with nothing selected, while a search is active.
C2_Witness ==
    /\ TableLoaded
    /\ prev.op = "handleSeverityClick"
    /\ last.op = "handleSeverityClick"
    /\ prev.arg = last.arg
    /\ prev.selectedSeverity = JsNull
    /\ last.selectedSeverity = Str(last.arg)
    /\ filteredJson # JsNull

\* C3: a search for a non-empty term followed by a search for an empty or
\* whitespace-only term leaves the displayed list equal to formattedJson,
\* and handleSearch never modifies formattedJson.
C3_SearchThenClear ==
    /\ [](( /\ prev.op = "handleSearch"
            /\ prev.arg = "term"
            /\ last.op = "handleSearch"
            /\ Trim(last.arg) = "" )
          => (filteredJson = JsNull /\ Data = formattedJson))
    /\ [][last'.op = "handleSearch" => formattedJson' = formattedJson]_vars

\* C3 witness: a search with a term was followed by a whitespace-only search
\* on a loaded table.
C3_Witness ==
    /\ TableLoaded
    /\ prev.op = "handleSearch"
    /\ prev.arg = "term"
    /\ last.op = "handleSearch"
    /\ last.arg = "  "
    /\ filteredJson = JsNull

\* The raw violations of a document that parses to an object with a
\* violations array, and the empty list for any other document.
RawViolations(doc) ==
    IF /\ doc.json.ok
       /\ doc.json.value.t = "object"
       /\ doc.json.value.violations.t = "array"
    THEN doc.json.value.violations.v
    ELSE <<>>

HasViolationsArray(doc) ==
    /\ doc.json.ok
    /\ doc.json.value.t = "object"
    /\ doc.json.value.violations.t = "array"

\* path contains main/default/<type>/<rest> and short is that <type>/<rest>.
ShortOf(path, short) ==
    \E i \in 1..Len(path) :
        /\ OccursAt(path, MAIN_DEFAULT_PREFIX, i)
        /\ short = SubSeq(path, i + Len(MAIN_DEFAULT_PREFIX), Len(path))
        /\ IndexOf(short, "/") > 1
        /\ IndexOf(short, "/") < Len(short)

\* One Violation is what C4 says of the raw entry it was made from.
ConformsTo(violation, raw) ==
    /\ violation.engine = raw.engine
    /\ violation.rule = raw.rule
    /\ Len(raw.locations) > 0 =>
        LET k == raw.primaryLocationIndex + 1
            loc == IF k <= Len(raw.locations)
                   THEN raw.locations[k] ELSE raw.locations[1]
        IN  /\ violation.line = Num(loc.startLine)
            /\ IF \E short \in {violation.file} : ShortOf(loc.file, short)
               THEN TRUE
               ELSE /\ violation.file = loc.file
                    /\ ~Includes(loc.file, MAIN_DEFAULT_PREFIX)

\* A list of Violations is what C4 says of the raw entries of a document.
ListConformsTo(rows, doc) ==
    LET raws == RawViolations(doc)
    IN  /\ Len(rows) = Len(raws)
        /\ \A i \in 1..Len(raws) : ConformsTo(rows[i], raws[i])

\* ListConformsTo for the lists formattedJson can hold.
Conforming ==
    [doc \in Documents |->
        [rows \in TableLists |-> ListConformsTo(rows, doc)] @@ <<>>] @@ <<>>

\* transformJson keeps the length of every violations array.
LengthsKept ==
    \A doc \in Documents :
        HasViolationsArray(doc) =>
            Len(transformJson(doc.json.value)) = Len(RawViolations(doc))

\* transformJson on the documented example.
ExampleTransformed ==
    LET example == transformJson(DocExample.json.value)
    IN  /\ Len(example) = 1
        /\ example[1].file = "classes/Foo.cls"
        /\ example[1].engine = "pmd"
        /\ example[1].line = Num(10)

\* C4: once a document with a violations array of n entries is loaded,
\* formattedJson holds n Violations in the order of the raw entries, each
\* with the engine and the rule of its raw entry, the startLine of the
\* primary location as line and the path of that location, shortened to
\* <type>/<rest> after main/default/, as file; transformJson keeps the
\* length of every violations array and turns the documented example into
\* one Violation with file classes/Foo.cls, engine pmd and line 10.
C4_Transform ==
    /\ (last.op = "wiredVersion" /\ Len(RawViolations(DocOf(last.arg))) > 0) =>
            /\ formattedJson.t = "array"
            /\ formattedJson.v \in TableLists
            /\ Conforming[DocOf(last.arg)][formattedJson.v]
    /\ LengthsKept
    /\ ExampleTransformed

\* C4 witness: the document with three violations, one of them with its
\* primary location second, has just been loaded.
C4_Witness ==
    /\ last.op = "wiredVersion"
    /\ last.arg = DocThree.text
    /\ TableLoaded
    /\ Len(formattedJson.v) = 3
    /\ formattedJson.v[2].file = "lwc/card/card.js"

\* C5 as stated: loading a blob that is not valid JSON leaves the viewer in
\* plain-text mode with formattedJson the blob itself, and neither in
\* tabular nor in YAML mode.
C5_Original ==
    (last.op = "wiredVersion" /\ ~DocOf(last.arg).json.ok) =>
        /\ type = "String"
        /\ isString
        /\ formattedJson = Str(last.arg)
        /\ ~(type = "Table")
        /\ ~isYAML

\* C5 as amended: loading a non-empty blob that is not valid JSON leaves the
\* viewer in plain-text mode with formattedJson the blob itself, and neither
\* in tabular nor in YAML mode; loading the empty blob changes neither the
\* display mode nor formattedJson.
C5_Amended ==
    /\ [](( /\ last.op = "wiredVersion"
            /\ ~DocOf(last.arg).json.ok
            /\ last.arg # "" )
          => /\ type = "String"
             /\ isString
             /\ formattedJson = Str(last.arg)
             /\ ~(type = "Table")
             /\ ~isYAML)
    /\ [][(last'.op = "wiredVersion" /\ last'.arg = "")
            => UNCHANGED <<type, formattedJson, showTable>>]_vars

\* C5 witness: a text that is not JSON has just replaced a loaded table.
C5_Witness ==
    /\ last.op = "wiredVersion"
    /\ last.arg = DocNotJson.text
    /\ prev.op = "other"
    /\ violationCounts # JsNull
    /\ isString

\* C7 as stated, for the blobs that parse: after loading one with a
\* violations array the viewer is in tabular mode, and after loading one
\* without a violations array it is in YAML mode.
C7_Classification ==
    (last.op = "wiredVersion" /\ DocOf(last.arg).json.ok) =>
        IF HasViolationsArray(DocOf(last.arg))
        THEN type = "Table" /\ isTabular
        ELSE type = "YAML" /\ isYAML

\* The violations groupedViolationsArray shows, group by group.
ShownLists ==
    LET groups == groupedViolationsArray
    IN  IF groupBy = "engine"
        THEN UNION {{groups[i].rules[j].violations :
                        j \in 1..Len(groups[i].rules)} : i \in 1..Len(groups)}
        ELSE UNION {{groups[i].files[j].violations :
                        j \in 1..Len(groups[i].files)} : i \in 1..Len(groups)}

ShownViolations == UNION {{list[k] : k \in 1..Len(list)} : list \in ShownLists}

\* The groups of either view, as the lists of violations they hold.
ShownCount ==
    LET groups == groupedViolationsArray
    IN  IF groupBy = "engine"
        THEN Sum([i \in 1..Len(groups) |-> EngineRuleSum(groups[i])])
        ELSE Sum([i \in 1..Len(groups) |-> SumLengths(groups[i].files, 1)])

\* For each list formattedJson can hold and each search input, the
\* positions of the violations one of whose fields contains the trimmed,
\* lower-cased input; every position when that is empty.
Matching ==
    [rows \in TableLists |->
        [value \in SearchInputs |->
            {i \in 1..Len(rows) :
                \/ Trim(value) = ""
                \/ \E term \in {ToLowerCase(Trim(value))} :
                        RowMatches(rows[i], term)}] @@ <<>>] @@ <<>>

\* The positions in the loaded list of the violations that match the
\* current search term and have the selected severity.
ExpectedPositions ==
    {i \in Matching[formattedJson.v][searchValue] :
        \/ selectedSeverity = JsNull
        \/ NatToString(formattedJson.v[i].severity) = selectedSeverity.v}

\* The search state was last set on the list that is loaded now.
SearchCurrent == TableLoaded /\ ~stale

\* C8: while the search state is that of the loaded list, the violations
\* groupedViolationsArray shows, in either grouping, are exactly the
\* violations of the loaded list that match the current search term and
\* have the selected severity, each shown once; a search leaves the
\* selected severity as it is, a severity click leaves the search as it is,
\* and handleClearFilters clears both.
C8_ShownIsFiltered ==
    /\ [](SearchCurrent =>
            /\ ShownViolations = {formattedJson.v[i] : i \in ExpectedPositions}
            /\ ShownCount = Cardinality(ExpectedPositions))
    /\ [][/\ last'.op = "handleSearch" => selectedSeverity' = selectedSeverity
          /\ last'.op = "handleSeverityClick" =>
                (searchValue' = searchValue /\ filteredJson' = filteredJson)
          /\ last'.op = "handleClearFilters" =>
                (selectedSeverity' = JsNull /\ filteredJson' = JsNull
                    /\ searchValue' = "")]_vars

\* C8 witness: a search and a severity are both in force on the list of
\* three violations and cut it down to one shown violation, in the grouping
\* by metadata type.
C8_Witness ==
    /\ SearchCurrent
    /\ Len(formattedJson.v) = 3
    /\ Trim(searchValue) # ""
    /\ selectedSeverity # JsNull
    /\ groupBy = "typefilename"
    /\ Len(filteredJson.v) = 2
    /\ ShownCount = 1

\* The number of violations of severity level in the search-filtered list.
FilteredOfSeverity(level) ==
    Cardinality({i \in 1..Len(filteredJson.v) :
                    NatToString(filteredJson.v[i].severity) = level})

\* The per-severity part of C9.
SeverityCountsAsClaimed ==
    violationCounts # JsNull =>
        \A i \in 1..Len(severityLevels) :
            LET entry == severityLevels[i]
            IN  IF filteredJson = JsNull
                THEN entry.count = violationCounts.v[entry.key]
                ELSE entry.count = FilteredOfSeverity(entry.level)

\* The part of C9 about an active filter: the total is the size of the
\* search-filtered list, or the number of violations of the working list
\* with the selected severity.
FilteredTotalAsClaimed ==
    TableLoaded =>
        /\ (selectedSeverity = JsNull /\ filteredJson # JsNull) =>
                dynamicTotalViolations = Len(filteredJson.v)
        /\ selectedSeverity # JsNull =>
                dynamicTotalViolations = Len(PassingSeverity)
        /\ filteredJson = Arr(<<>>) =>
                /\ dynamicTotalViolations = 0
                /\ \A i \in 1..Len(severityLevels) : severityLevels[i].count = 0

RECURSIVE OffsetOf(_, _, _)
OffsetOf(metadata, n, i) ==
    IF i <= 1 THEN 0
    ELSE OffsetOf(metadata, n, i - 1)
            + (IF Includes(metadata[i - 1], SITE_PLACEHOLDER) THEN n ELSE 1)

\* The entry a template gives for a site: the template with the placeholder
\* replaced by the site, the directory override applied or not.
IsSiteEntry(entry, meta, site, directory) ==
    LET replaced == ReplaceFirst(meta, SITE_PLACEHOLDER, site)
    IN  \/ entry = replaced
        \/ /\ Truthy(directory)
           /\ entry = ReplaceFirst(replaced, METADATA_DIRECTORY, directory.v)

\* _filtered is the expansion C6 describes of the given properties.
ExpandedAsClaimed(files, properties) ==
    LET metadata == SplitLines(properties.SFCC_METADATA_ITEMS.v)
        sites == Sites(properties)
        n == Len(sites)
    IN  /\ Len(files) = OffsetOf(metadata, n, Len(metadata) + 1)
        /\ \A i \in 1..Len(metadata) :
                Includes(metadata[i], SITE_PLACEHOLDER) =>
                    \A k \in 1..n :
                        IsSiteEntry(files[OffsetOf(metadata, n, i) + k],
                                    metadata[i], sites[k],
                                    properties.SFCC_METADATA_DIRECTORY)

\* C6 as stated: after the expansion in renderedCallback, every template
\* with the <site-id> placeholder has given one entry per site, each the
\* template with the placeholder replaced by that site, whether or not the
\* directory override is configured.
C6_SiteExpansion ==
    expanded # NoMessage => ExpandedAsClaimed(_filtered, expanded)

\* One entry as retrieveChanges builds it.
Entry(name, memberType, directory, category) ==
    [Operation |-> "Add", MemberName |-> name, MemberType |-> memberType,
     Directory |-> directory, LastModifiedDate |-> "",
     LastModifiedByName |-> "", Category |-> category]

\* How often e occurs in the sequence entries.
Occurs(e, entries) == Cardinality({i \in 1..Len(entries) : entries[i] = e})

\* The entries C10 expects of a _filtered and a changeset.
MetadataEntries(files) ==
    [i \in 1..Len(files) |-> Entry(files[i], "xml", "", "ccmetadata")]

ChangeEntries(changes) ==
    [i \in 1..Len(changes) |->
        Entry(changes[i].n, changes[i].t, changes[i].m, changes[i].c)]

\* C10: the published message has type retrievedChanges, its value is
\* sorted in non-decreasing order of MemberName, and the value holds, as a
\* multiset, one ccmetadata entry per element of _filtered and one entry per
\* element of the fetched changeset with the category that element gave.
C10_Published ==
    published # NoMessage =>
        LET value == published.value
            fromFiles == MetadataEntries(publishedFrom.files)
            fromChanges == ChangeEntries(publishedFrom.changes.json.value.v)
            all == {value[i] : i \in 1..Len(value)}
                    \cup {fromFiles[i] : i \in 1..Len(fromFiles)}
                    \cup {fromChanges[i] : i \in 1..Len(fromChanges)}
        IN  /\ published.type = "retrievedChanges"
            /\ \A i \in 1..Len(value) : \A j \in (i + 1)..Len(value) :
                    ~StrLess(value[j].MemberName, value[i].MemberName)
            /\ Len(value) = Len(fromFiles) + Len(fromChanges)
            /\ \A e \in all :
                    Occurs(e, value) = Occurs(e, fromFiles) + Occurs(e, fromChanges)

\* C10 witness: a message was published from three expanded metadata
\* entries and a changeset of two, whose names sort before them.
C10_Witness ==
    /\ published # NoMessage
    /\ Len(publishedFrom.files) = 4
    /\ publishedFrom.changes = ChangesTwo
    /\ Len(published.value) = 6
    /\ published.value[1].Category = "apex"

\* The step just taken ends a run of retrieveChanges.
RunEnds ==
    lastCommit'.op \in {"changesResolved", "changesRejected"}

\* The step just taken ends a run whose changeset call failed, or whose
\* result could not be parsed into an array.
RunFails ==
    \/ lastCommit'.op = "changesRejected"
    \/ lastCommit'.op = "changesResolved" /\ RetrieveThrows(lastCommit'.arg)

\* The step just taken settles a property call that failed, or whose
\* answer could not be expanded.
PropertiesFail ==
    \/ lastCommit'.op = "propertiesRejected"
    \/ lastCommit'.op = "propertiesResolved" /\ ExpansionThrows(lastCommit'.arg)

\* C11: a run of retrieveChanges publishes at most one message; a run whose
\* changeset call or parsing fails publishes nothing, starts no other call
\* and clears _isWorking; a failed property call starts no changeset call
\* and publishes nothing.  Renders and triggers together bound the calls in
\* flight plus the messages published.
C11_NoRetry ==
    /\ [](publishCount + pendingChanges + openDialogs
            + Cardinality(pendingProperties) <= renders + triggers)
    /\ [][/\ RunEnds =>
                /\ publishCount' \in {publishCount, publishCount + 1}
                /\ pendingChanges' = pendingChanges - 1
                /\ UNCHANGED <<pendingProperties, openDialogs>>
                /\ _isWorking' = FALSE
          /\ RunFails =>
                /\ UNCHANGED <<publishCount, published>>
                /\ pendingChanges' = pendingChanges - 1
                /\ _isWorking' = FALSE
          /\ PropertiesFail =>
                UNCHANGED <<pendingChanges, publishCount, published, _isWorking>>
         ]_vars

\* C11 witness: the only run so far has ended on a changeset that is no
\* JSON, with nothing published, nothing in flight and _isWorking cleared.
C11_Witness ==
    /\ lastCommit.op = "changesResolved"
    /\ lastCommit.arg = ChangesNotJson
    /\ renders = 1
    /\ triggers = 0
    /\ pendingChanges = 0
    /\ publishCount = 0
    /\ published = NoMessage
    /\ ~_isWorking

\* The step just taken applies the answer to a property call.
PropertiesApplied ==
    /\ lastCommit'.op = "propertiesResolved"
    /\ ~ExpansionThrows(lastCommit'.arg)

\* C12: the answer to a property call is applied whenever it arrives,
\* whatever other calls are in flight or were made later: _filtered becomes
\* the expansion of that answer, the other calls stay in flight, and the
\* resolution starts a changeset call of its own, which publishes a message
\* built from the _filtered of that moment when it resolves with an array.
C12_LastArrivalWins ==
    /\ [](expanded # NoMessage => _filtered = Expand(expanded))
    /\ [][/\ PropertiesApplied =>
                /\ _filtered' = Expand(lastCommit'.arg)
                /\ pendingProperties' = pendingProperties \ {lastCommit'.request}
                /\ pendingChanges' = pendingChanges + 1
                /\ _isWorking' = TRUE
          /\ (lastCommit'.op = "changesResolved"
                /\ ~RetrieveThrows(lastCommit'.arg)) =>
                /\ publishCount' = publishCount + 1
                /\ publishedFrom'.files = _filtered
         ]_vars

\* C12 witness: the call of the first render was answered after the call of
\* the second render, both answers were applied (two changeset calls are in
\* flight), and _filtered holds the expansion of the first call's answer.
C12_Witness ==
    /\ renders = 2
    /\ triggers = 0
    /\ pendingProperties = {}
    /\ lastCommit.op = "propertiesResolved"
    /\ lastCommit.request = 1
    /\ lastCommit.arg = PropsMixed
    /\ pendingChanges = 2
    /\ _filtered = Expand(PropsMixed)

(***************************************************************************)
(* Further properties of the viewer                                        *)
(***************************************************************************)
\* The lower-cased string coercion of one of the fields of row contains
\* the lower-cased, trimmed value.
KeptAsClaimed(row, value) ==
    \E term \in {ToLowerCase(Trim(value))} :
        \E fields \in {FieldStrings(row)} :
            \E k \in 1..Len(fields) : Includes(ToLowerCase(fields[k]), term)

\* For each list formattedJson can hold and each search input, the
\* violations C13 keeps, in the order of the list.
Kept ==
    [rows \in TableLists |->
        [value \in SearchInputs |->
            SelectSeq(rows, LAMBDA row : KeptAsClaimed(row, value))] @@ <<>>]
    @@ <<>>

\* Search values that differ in letter case only.
CasePairs == {<<"Foo", "fOO">>, <<" PMD ", " pmd ">>, <<"unused", "UNUSED">>}

\* What handleSearch filters does not depend on the letter case of the term.
CaseBlind ==
    \A rows \in TableLists : \A pair \in CasePairs :
        _applySearch(rows, SearchTerm(pair[1]))
            = _applySearch(rows, SearchTerm(pair[2]))

\* C13: after a search for a value that is not blank, filteredJson holds,
\* in the order of the loaded list, exactly the violations one of whose
\* fields, coerced to a string and lower-cased, contains the trimmed and
\* lower-cased value; the letter case of the value makes no difference.
C13_SubstringSearch ==
    /\ ( /\ last.op = "handleSearch"
         /\ Trim(last.arg) # ""
         /\ formattedJson.t = "array" )
            => filteredJson = Arr(Kept[formattedJson.v][last.arg])
    /\ CaseBlind

\* C13 witness: the search for " PMD " in the list of three violations has
\* kept the first and the third, in that order.
C13_Witness ==
    /\ last.op = "handleSearch"
    /\ last.arg = " PMD "
    /\ TableLoaded
    /\ Len(formattedJson.v) = 3
    /\ filteredJson = Arr(<<formattedJson.v[1], formattedJson.v[3]>>)

HasSlash(path) == \E p \in 1..Len(path) : SubSeq(path, p, p) = "/"

\* typeKey is the first '/'-separated segment of path and fileKey the rest;
\* a path without '/' has the type 'Unknown' and is its own file key.
SplitsInto(path, typeKey, fileKey) ==
    IF HasSlash(path)
    THEN path = typeKey \o "/" \o fileKey /\ ~HasSlash(typeKey)
    ELSE typeKey = "Unknown" /\ fileKey = path

\* The buckets of the type and file grouping, as <<type, file>> positions.
Buckets(groups) ==
    UNION {{<<i, j>> : j \in 1..Len(groups[i].files)} : i \in 1..Len(groups)}

\* The places of the grouping at which violation stands.
PlacesOf(groups, violation) ==
    UNION {{<<b, n>> : n \in {m \in 1..Len(groups[b[1]].files[b[2]].violations) :
                                groups[b[1]].files[b[2]].violations[m] = violation}} :
            b \in Buckets(groups)}

GroupedAsClaimed(groups, passing) ==
    /\ \A k \in 1..Len(passing) : Cardinality(PlacesOf(groups, passing[k])) = 1
    /\ \A i, k \in 1..Len(groups) : groups[i].key = groups[k].key => i = k
    /\ \A i \in 1..Len(groups) :
        /\ \A j, k \in 1..Len(groups[i].files) :
                groups[i].files[j].key = groups[i].files[k].key => j = k
        /\ \A j \in 1..Len(groups[i].files) :
            LET bucket == groups[i].files[j]
            IN  /\ Len(bucket.violations) > 0
                /\ \A n \in 1..Len(bucket.violations) :
                        SplitsInto(bucket.violations[n].file, groups[i].key, bucket.key)
                /\ bucket.label = bucket.key \o " ("
                        \o NatToString(Len(bucket.violations)) \o ")"
        /\ groups[i].label = groups[i].key \o " ("
                \o NatToString(Sum([j \in 1..Len(groups[i].files) |->
                                        Len(groups[i].files[j].violations)])) \o ")"
    /\ Sum([i \in 1..Len(groups) |->
                Sum([j \in 1..Len(groups[i].files) |->
                        Len(groups[i].files[j].violations)])]) = Len(passing)

\* C14: in groupedByMetadataTypeArray every violation that passes the
\* search and severity filters stands in exactly one file bucket of exactly
\* one type group, the type being the first '/'-segment of its display path
\* ('Unknown' when there is no '/') and the file key the rest; the label of
\* a file carries the size of its bucket, the label of a type the sum of its
\* buckets, and the counts of all types sum to the number of filtered
\* violations.
C14_TypeGrouping ==
    TableLoaded => GroupedAsClaimed(groupedByMetadataTypeArray, PassingSeverity)

\* C14 witness: of the three loaded violations the search for "Foo" keeps
\* two, of which severity 3 selects one, grouped under classes / Foo.cls.
C14_Witness ==
    /\ TableLoaded
    /\ Len(formattedJson.v) = 3
    /\ filteredJson # JsNull
    /\ Len(filteredJson.v) = 2
    /\ selectedSeverity # JsNull
    /\ Len(groupedByMetadataTypeArray) = 1
    /\ groupedByMetadataTypeArray[1].label = "classes (1)"
    /\ groupedByMetadataTypeArray[1].files[1].label = "Foo.cls (1)"

\* The violations of the payload of doc, as the table shows them.
LoadedViolations(doc) ==
    {FormattedData[doc].formattedJson.v[k] :
        k \in 1..Len(FormattedData[doc].formattedJson.v)}

\* C15: right after the load of a payload that has violations, whatever
\* searches, severity clicks and loads came before, the displayed violations
\* are violations of that payload, and formattedJson, type and
\* violationCounts are the ones of that payload.
C15_LastPayload ==
    ( /\ last.op = "wiredVersion"
      /\ Len(RawViolations(DocOf(last.arg))) > 0 )
        => /\ formattedJson = FormattedData[DocOf(last.arg)].formattedJson
           /\ type = FormattedData[DocOf(last.arg)].type
           /\ violationCounts = getFormattedDataCounts(DocOf(last.arg), JsNull)
           /\ ShownViolations \subseteq LoadedViolations(DocOf(last.arg))

(***************************************************************************)
(* Further properties of the commit actions                                *)
(***************************************************************************)
\* C16: _isWorking, which showSpinner reports, is true while a
\* retrieveChanges run awaits its changeset fetch, and false once no run
\* is under way.
C16_Spinner ==
    /\ pendingChanges > 0 => _isWorking
    /\ (pendingChanges = 0 /\ openDialogs = 0 /\ pendingProperties = {})
            => ~_isWorking

=============================================================================
